---- MODULE Spec2Model ----
(***************************************************************************)
(* Model of the solar inverter / P1 meter collectors                       *)
(* (collect_solar_data.py, collect_p1_data.py) and of the tables they      *)
(* write.  One process is one invocation of a collector's main().          *)
(***************************************************************************)
EXTENDS Integers, Sequences, FiniteSets, TLC

\* ------------------------------------------------------------------------
\* Bounds
\* ------------------------------------------------------------------------
\* Number of collector invocations the scheduler starts one after the
\* other (Spec).
MaxRuns == 2
\* Number of standalone P1 collector invocations that overlap (SpecRace).
NumRacers == 3

\* Number of storage calls, over a whole behaviour, in which the database
\* driver raises.
MaxFaults == 2

\* Process slots.  Spec reuses slot 1 for every invocation; SpecRace runs
\* one invocation in each slot.
Procs == 1..NumRacers

\* ------------------------------------------------------------------------
\* Values
\* ------------------------------------------------------------------------
\* Python None / a missing dict key is the empty tuple, a value v is <<v>>.
None == <<>>
Some(v) == <<v>>

\* The two scripts.
Kinds == {"combined", "p1"}

\* Config.p1_endpoint: empty (meter not configured) or a URL.
Endpoints == {"", "http://p1/api/v1/data"}

\* Parsed inverter documents the endpoint can answer with.  main() does not
\* branch on the content of a document, and every invocation receiving the
\* same document is the case of repeated identical payloads.
InverterPayloads ==
  { [p_ac |-> 500, temp |-> Some(34), e_today |-> Some(12)] }

\* JSON objects the meter endpoint can answer with.  A key that is missing
\* is None; a key that is present is Some(value).  A numeric value is
\* itself None (JSON null) or Some(n).
MeterPayloads ==
  { [unique_id |-> Some("m1"), meter_model |-> Some("A"), smr_version |-> Some(50),
     wifi_ssid |-> Some("home"), active_power_w |-> Some(Some(100)),
     voltage_sag_l1_count |-> None],
    [unique_id |-> Some("m1"), meter_model |-> Some("B"), smr_version |-> Some(42),
     wifi_ssid |-> Some("shed"), active_power_w |-> Some(Some(100)),
     voltage_sag_l1_count |-> Some(Some(2))],
    [unique_id |-> Some("m2"), meter_model |-> Some("A"), smr_version |-> Some(50),
     wifi_ssid |-> Some("home"), active_power_w |-> None,
     voltage_sag_l1_count |-> Some(None)],
    [unique_id |-> None, meter_model |-> Some("A"), smr_version |-> Some(50),
     wifi_ssid |-> Some("home"), active_power_w |-> Some(Some(100)),
     voltage_sag_l1_count |-> None] }

\* ------------------------------------------------------------------------
\* Parsing of the inverter document
\* ------------------------------------------------------------------------
\* Longest element text.
MaxLen == 3

\* Characters of an element text: whitespace, the hyphen, digits, the
\* decimal point and letters.  A text is a sequence of characters.
Chars == {" ", "-", "0", "1", ".", "n", "a"}
Texts == UNION {[1..n -> Chars] : n \in 0..MaxLen}

\* root.find(name): None when the element is missing, otherwise an element
\* whose .text is None (empty element) or a text.
Elements == {None} \cup {Some(text) : text \in {None} \cup {Some(t) : t \in Texts}}

\* The elements of the document the model follows.
ElementNames == {"state", "temp", "p-ac", "pac2"}

\* Documents in which at most one of these elements is present.
Docs == [name : ElementNames, element : Elements]

\* root.find(name)
Find(doc, name) == IF doc.name = name THEN doc.element ELSE None

\* root.find(name).text if root.find(name) is not None else None
ElementText(element) == IF element # None THEN element[1] ELSE None

RECURSIVE LStrip(_)
LStrip(s) == IF s # <<>> /\ Head(s) = " " THEN LStrip(Tail(s)) ELSE s

RECURSIVE RStrip(_)
RStrip(s) == IF s # <<>> /\ s[Len(s)] = " " THEN RStrip(SubSeq(s, 1, Len(s) - 1)) ELSE s

\* str.strip()
strip(s) == RStrip(LStrip(s))

Digits == {"0", "1"}
DigitValue(c) == IF c = "1" THEN 1 ELSE 0

RECURSIVE DigitsValue(_)
DigitsValue(ds) ==
  IF ds = <<>> THEN 0
  ELSE 10 * DigitsValue(SubSeq(ds, 1, Len(ds) - 1)) + DigitValue(ds[Len(ds)])

RECURSIVE Pow10(_)
Pow10(k) == IF k = 0 THEN 1 ELSE 10 * Pow10(k - 1)

\* A float is kept exactly, as a whole number of units of 10^-MaxLen, or is
\* the value nan.
Scale == Pow10(MaxLen)
Num(v) == [nan |-> FALSE, v |-> v]
NaN == [nan |-> TRUE, v |-> 0]

\* float(value) for a str: surrounding whitespace is dropped; an optional
\* sign is followed by the word nan or by digits with at most one decimal
\* point and at least one digit.  ok is FALSE when ValueError is raised.
PyFloat(value) ==
  LET s == strip(value)
      neg == s # <<>> /\ Head(s) = "-"
      body == IF neg THEN Tail(s) ELSE s
      dots == {i \in DOMAIN body : body[i] = "."}
      dot == IF dots = {} THEN Len(body) + 1 ELSE CHOOSE i \in dots : \A j \in dots : i <= j
      whole == SubSeq(body, 1, dot - 1)
      frac == SubSeq(body, dot + 1, Len(body))
      digits == whole \o frac
      magnitude == DigitsValue(whole) * Scale + DigitsValue(frac) * Pow10(MaxLen - Len(frac))
  IN IF body = <<"n", "a", "n">> THEN [ok |-> TRUE, x |-> NaN]
     ELSE IF digits # <<>> /\ \A i \in DOMAIN digits : digits[i] \in Digits
     THEN [ok |-> TRUE, x |-> Num(IF neg THEN 0 - magnitude ELSE magnitude)]
     ELSE [ok |-> FALSE, x |-> Num(0)]

parse_xml_value(value) ==
  IF value = None \/ strip(value[1]) = <<"-">> \/ strip(value[1]) = <<>>
  THEN None
  ELSE IF PyFloat(value[1]).ok THEN Some(PyFloat(value[1]).x) ELSE None

\* `v or 0` for v a float or None: None and 0.0 are falsy, nan is not.
OrZero(v) == IF v = None THEN Num(0) ELSE IF v[1] = Num(0) THEN Num(0) ELSE v[1]

\* int(x) for a finite float: truncation towards zero.  int(nan) raises
\* ValueError.
PyInt(x) == IF x.v >= 0 THEN x.v \div Scale ELSE 0 - ((0 - x.v) \div Scale)

\* The dict fetch_inverter_data builds from the document, or None when
\* building it raises (caught by `except Exception`, the function returns
\* None).
fetch_inverter_data(doc) ==
  LET value(name) == parse_xml_value(ElementText(Find(doc, name)))
      raises == \E name \in {"p-ac", "pac2"} : OrZero(value(name)).nan
  IN IF raises THEN None
     ELSE Some([state |-> ElementText(Find(doc, "state")),
                temp |-> value("temp"),
                p_ac |-> PyInt(OrZero(value("p-ac"))),
                pac2 |-> IF value("pac2") # None
                         THEN Some(PyInt(OrZero(value("pac2"))))
                         ELSE None])

\* ------------------------------------------------------------------------
\* What the database driver can do to one storage call.
\*   none         every driver call succeeds
\*   connect      mysql.connector.connect raises Error
\*   cursor_lost  connection.cursor() raises Error, is_connected() is False
\*   cursor_live  connection.cursor() raises Error, is_connected() is True:
\*                the finally block reads the unassigned local `cursor`
\*   execute      cursor.execute raises Error
\*   unexpected   a call of the try body raises an exception that is not a
\*                mysql.connector Error; the cleanup of the finally block
\*                succeeds
\*   commit       connection.commit raises Error
\*   cursor_close cursor.close() raises in the finally block
\*   conn_close   connection.close() raises in the finally block
\* ------------------------------------------------------------------------
Faults == {"none", "connect", "cursor_lost", "cursor_live", "execute", "unexpected",
           "commit", "cursor_close", "conn_close"}

\* The try body ran to the end (the INSERT is committed).
Committed(f) == f \in {"none", "cursor_close", "conn_close"}

\* The finally block raises, which replaces the pending return or the
\* exception in flight.
Raises(f) == f \in {"cursor_live", "cursor_close", "conn_close"}

\* connection.close() did not complete on an open connection.
LeavesOpen(f) == f \in {"cursor_live", "cursor_close", "conn_close"}

\* Variant: the function returns True whenever it returns.
StoreOutcomeAlwaysTrue(f) == IF Raises(f) THEN "raise" ELSE "ok"

\* Outcome of store_data / store_p1_data seen by the caller: `except Error`
\* and `except Exception` both return False.
StoreOutcome(f) ==
  IF Raises(f) THEN "raise" ELSE IF Committed(f) THEN "ok" ELSE "fail"

\* ------------------------------------------------------------------------
\* State
\* ------------------------------------------------------------------------
VARIABLES
  run,             \* run[p]: the locals of invocation p and its position
  inverter_data,   \* table inverter_data
  p1_devices,      \* table p1_devices
  p1_meter_data,   \* table p1_meter_data
  collection_logs, \* table collection_logs
  started,         \* number of invocations started so far
  faults,          \* number of storage calls in which the driver raised
  clean_runs,      \* number of invocations of the combined collector, meter
                   \* configured, that ended with exit code 0 and their run
                   \* log written
  returns,         \* what device resolution returned when the driver
                   \* raised nothing: pairs <<unique_id, result>>
  xml_doc,         \* the inverter document under parse
  parse_done,      \* which of the parsing functions have been applied to it
  parsed_value,    \* what parse_xml_value returned
  inverter_record  \* what fetch_inverter_data returned

vars == <<run, inverter_data, p1_devices, p1_meter_data, collection_logs,
          started, faults, clean_runs, returns,
          xml_doc, parse_done, parsed_value, inverter_record>>
parsing == <<xml_doc, parse_done, parsed_value, inverter_record>>
history == <<started, clean_runs, returns>>
tables == <<inverter_data, p1_devices, p1_meter_data, collection_logs>>

\* The row create_tables leaves in collection_logs.  Of a row of this
\* table the model keeps the id and the status; no collector reads the
\* table back.
SetupLogRow == [id |-> 1, status |-> "success"]

\* Locals of main() before its first statement.  exc is the exception bound
\* by `except Exception as e`; log_calls, trace, open_conns and at_start are
\* records of what the invocation did: the calls of log_collection_result,
\* the fetches and storage calls with their results, the connections left
\* open, and the meter tables as the invocation found them.
InitRun ==
  [pc |-> "idle", kind |-> "combined", p1_endpoint |-> "",
   solar_data |-> None, solar_success |-> FALSE,
   p1_data |-> None, device_id |-> None, p1_success |-> FALSE,
   messages |-> <<>>, overall_success |-> None, exc |-> None,
   exit_code |-> None, log_calls |-> <<>>, trace |-> <<>>, open_conns |-> 0,
   at_start |-> <<>>]

Init ==
  /\ run = [p \in Procs |-> InitRun]
  /\ inverter_data = <<>>
  /\ p1_devices = <<>>
  /\ p1_meter_data = <<>>
  /\ collection_logs = <<SetupLogRow>>
  /\ started = 0
  /\ faults = 0
  /\ clean_runs = 0
  /\ returns = {}
  /\ xml_doc = [name |-> "state", element |-> None]
  /\ parse_done = {}
  /\ parsed_value = None
  /\ inverter_record = None

\* ------------------------------------------------------------------------
\* Tables
\* ------------------------------------------------------------------------
\* id INT AUTO_INCREMENT PRIMARY KEY
NextId(table) == Len(table) + 1

\* Variant: the row is written only if no row with the same values exists
\* (INSERT ... WHERE NOT EXISTS).
InsertRowDedup(table, fields) ==
  IF \E i \in DOMAIN table : [k \in DOMAIN fields |-> table[i][k]] = fields
  THEN table
  ELSE Append(table, [id |-> Len(table) + 1] @@ fields)

\* cursor.execute(INSERT ...) followed by connection.commit(): one new row,
\* whatever the table already holds.
InsertRow(table, fields) == Append(table, [id |-> NextId(table)] @@ fields)

\* dict.get(key, default) on a payload field.
DictGet(field, default) == IF field = None THEN default ELSE field[1]

\* Variant: p1_devices.unique_id carries no uniqueness constraint.
UniqueViolationOff(devices, uid) == FALSE

\* The uniqueness constraint of p1_devices.unique_id: an INSERT of a
\* unique_id the table already holds is rejected (IntegrityError).
UniqueViolation(devices, uid) ==
  \E i \in 1..Len(devices) : devices[i].unique_id = uid

\* Variant: the WHERE clause of the SELECT matches no row.
LookupDeviceMiss(devices, uid) == None

\* SELECT id FROM p1_devices WHERE unique_id = %s; fetchone()
LookupDevice(devices, uid) ==
  LET hits == {i \in 1..Len(devices) : devices[i].unique_id = uid}
  IN IF hits = {} THEN None
     ELSE Some(devices[CHOOSE i \in hits : \A j \in hits : i <= j].id)

\* The values of INSERT INTO p1_devices.
DeviceRow(data) ==
  [unique_id |-> data.unique_id[1],
   meter_model |-> DictGet(data.meter_model, None),
   smr_version |-> DictGet(data.smr_version, None),
   wifi_ssid |-> DictGet(data.wifi_ssid, None)]

\* The values of INSERT INTO p1_meter_data.
MeterRow(data, device_id) ==
  [device_id |-> device_id,
   active_power_w |-> DictGet(data.active_power_w, None),
   voltage_sag_l1_count |-> DictGet(data.voltage_sag_l1_count, Some(0))]

\* The values of INSERT INTO inverter_data.
InverterRow(data) == [p_ac |-> data.p_ac, temp |-> data.temp, e_today |-> data.e_today]

\* ------------------------------------------------------------------------
\* Messages
\* ------------------------------------------------------------------------
Fragment(src, text, vals) == [src |-> src, text |-> text, vals |-> vals]

SolarSummary(d) == Fragment("Solar", "Power/Temp/Today", <<d.p_ac, d.temp, d.e_today>>)
P1Summary(d) == Fragment("P1", "Power/Tariff/Import", <<DictGet(d.active_power_w, None)>>)
Separator == Fragment(" | ", "", <<>>)

\* Variant: the fragments are concatenated without a separator.
JoinUnseparated(msgs) == msgs

RECURSIVE Join(_)
\* " | ".join(messages)
Join(msgs) ==
  IF Len(msgs) <= 1 THEN msgs
  ELSE <<Head(msgs), Separator>> \o Join(Tail(msgs))

\* summary_message
Summary(msgs) ==
  IF msgs # <<>> THEN Join(msgs) ELSE <<Fragment("", "No data collected", <<>>)>>

\* Variant: the meter's result is left out of the aggregate.
OverallSuccessSolarOnly(solar_success, p1_success) == solar_success

\* overall_success
OverallSuccess(solar_success, p1_success) == solar_success /\ p1_success

\* if config.p1_endpoint:
MeterConfigured(endpoint) == endpoint # ""

\* fetch_p1_data: no request is made to an empty endpoint.
FetchP1Data(endpoint, reply) == IF endpoint = "" THEN None ELSE reply

\* ------------------------------------------------------------------------
\* log_collection_result(status, message, ...)
\* ------------------------------------------------------------------------
\* The table after the call under driver behaviour f.
LogWrite(logs, status, message, f) ==
  IF Committed(f) THEN InsertRow(logs, [status |-> status])
  ELSE logs

\* What the caller sees: the call returns (an Error is caught inside) unless
\* the finally block raises or the try body raises an exception that is not
\* an Error, for which the function has no except clause.
LogRaises(f) == Raises(f) \/ f = "unexpected"

\* ------------------------------------------------------------------------
\* Steps of main()
\* ------------------------------------------------------------------------
Put(p, r) == run' = [run EXCEPT ![p] = r]

\* The driver behaves as f in this storage call.
Driver(f) ==
  /\ f # "none" => faults < MaxFaults
  /\ faults' = faults + (IF f = "none" THEN 0 ELSE 1)

Ev(op, res, env) == [op |-> op, res |-> res, env |-> env]

\* Variant: main has no top-level handler; the exception ends the process.
CaughtUnhandled(r, op, f) ==
  [r EXCEPT !.exc = Some(op), !.pc = "done", !.exit_code = Some(1),
            !.open_conns = @ + (IF LeavesOpen(f) THEN 1 ELSE 0),
            !.trace = Append(@, [op |-> op, res |-> "raise", env |-> TRUE])]

\* A step that ends in an exception reaching main's `except Exception`.
Caught(r, op, f) ==
  [r EXCEPT !.exc = Some(op), !.pc = "handler",
            !.open_conns = @ + (IF LeavesOpen(f) THEN 1 ELSE 0),
            !.trace = Append(@, Ev(op, "raise", TRUE))]

StartBody(p, k, ep) ==
  /\ Put(p, [InitRun EXCEPT !.kind = k, !.p1_endpoint = ep,
                            !.at_start = <<p1_devices, p1_meter_data>>,
                            !.pc = IF k = "combined" THEN "fetch_solar" ELSE "fetch_p1"])
  /\ started' = started + 1
  /\ UNCHANGED <<parsing, tables, faults, clean_runs, returns>>

\* One invocation after the other: the scheduler starts the next invocation
\* when the previous one has ended.
Start(p) ==
  /\ p = 1
  /\ run[p].pc \in {"idle", "done"}
  /\ started < MaxRuns
  /\ \E k \in Kinds, ep \in Endpoints : StartBody(p, k, ep)

\* Overlapping invocations of the standalone P1 collector.  The slots are
\* interchangeable, so they are taken in order.
StartRace(p) ==
  /\ run[p].pc = "idle"
  /\ IF p = 1 THEN TRUE ELSE run[p - 1].pc # "idle"
  /\ \E ep \in Endpoints \ {""} : StartBody(p, "p1", ep)

\* solar_data = fetch_inverter_data(...) and the branch on its result.
FetchSolar(p) ==
  LET r == run[p] IN
  /\ r.pc = "fetch_solar"
  /\ \E reply \in {None} \cup {Some(d) : d \in InverterPayloads} :
       Put(p, IF reply = None
              THEN [r EXCEPT !.messages = Append(@, Fragment("Solar", "Failed to fetch data", <<>>)),
                             !.trace = Append(@, Ev("fetch_solar", "fail", TRUE)),
                             !.pc = "p1_gate"]
              ELSE [r EXCEPT !.solar_data = reply,
                             !.trace = Append(@, Ev("fetch_solar", "ok", FALSE)),
                             !.pc = "store_solar"])
  /\ UNCHANGED <<parsing, tables, faults, history>>

\* solar_success = store_data(solar_data, ...) and the branch on its result.
StoreSolar(p) ==
  LET r == run[p]
      d == r.solar_data[1]
  IN
  /\ r.pc = "store_solar"
  /\ \E f \in Faults :
       /\ Driver(f)
       /\ inverter_data' = IF Committed(f) THEN InsertRow(inverter_data, InverterRow(d))
                           ELSE inverter_data
       /\ Put(p, CASE StoreOutcome(f) = "ok" ->
                        [r EXCEPT !.solar_success = TRUE,
                                  !.messages = Append(@, SolarSummary(d)),
                                  !.trace = Append(@, Ev("store_solar", "ok", FALSE)),
                                  !.pc = "p1_gate"]
                   [] StoreOutcome(f) = "fail" ->
                        [r EXCEPT !.solar_success = FALSE,
                                  !.messages = Append(@, Fragment("Solar", "Failed to store data", <<>>)),
                                  !.trace = Append(@, Ev("store_solar", "fail", TRUE)),
                                  !.pc = "p1_gate"]
                   [] OTHER -> Caught(r, "store_solar", f))
  /\ UNCHANGED <<parsing, p1_devices, p1_meter_data, collection_logs, history>>

\* if config.p1_endpoint: ... else: p1_success = True
P1Gate(p) ==
  LET r == run[p] IN
  /\ r.pc = "p1_gate"
  /\ Put(p, IF MeterConfigured(r.p1_endpoint)
            THEN [r EXCEPT !.pc = "fetch_p1"]
            ELSE [r EXCEPT !.p1_success = TRUE, !.pc = "aggregate"])
  /\ UNCHANGED <<parsing, tables, faults, history>>

\* What main does when the meter source failed with the given reason.
MeterFailed(r, op, combinedText, p1Text) ==
  IF r.kind = "combined"
  THEN [r EXCEPT !.messages = Append(@, Fragment("P1", combinedText, <<>>)),
                 !.trace = Append(@, Ev(op, "fail", TRUE)),
                 !.pc = "aggregate"]
  ELSE [r EXCEPT !.messages = <<Fragment("P1", p1Text, <<>>)>>,
                 !.trace = Append(@, Ev(op, "fail", TRUE)),
                 !.pc = "p1_finish"]

\* p1_data = fetch_p1_data(...) and the branch on its result.
FetchP1(p) ==
  LET r == run[p] IN
  /\ r.pc = "fetch_p1"
  /\ \E reply \in {None} \cup {Some(d) : d \in MeterPayloads} :
       LET data == FetchP1Data(r.p1_endpoint, reply) IN
       Put(p, IF data = None
              THEN MeterFailed(r, "fetch_p1", "Failed to fetch data",
                               "Failed to fetch data from P1 meter")
              ELSE [r EXCEPT !.p1_data = data,
                             !.trace = Append(@, Ev("fetch_p1", "ok", FALSE)),
                             !.pc = "resolve_select"])
  /\ UNCHANGED <<parsing, tables, faults, history>>

\* The branch of main on the value get_or_create_p1_device returned.
Resolved(r, result, env) ==
  IF result = None
  THEN [MeterFailed(r, "resolve", "Failed to get/create device",
                    "Failed to get/create device")
          EXCEPT !.trace = Append(r.trace, Ev("resolve", "fail", env))]
  ELSE [r EXCEPT !.device_id = result,
                 !.trace = Append(@, Ev("resolve", "ok", env)),
                 !.pc = "store_p1"]

\* Variant: a device that is found has its attributes refreshed from the
\* payload (INSERT ... ON DUPLICATE KEY UPDATE).
DevSelectRefresh(p) ==
  LET r == run[p]
      data == r.p1_data[1]
      found == IF data.unique_id = None THEN None
               ELSE LookupDevice(p1_devices, data.unique_id[1])
  IN
  /\ r.pc = "resolve_select"
  /\ Driver("none")
  /\ p1_devices' = IF found = None THEN p1_devices
                   ELSE [i \in DOMAIN p1_devices |->
                           IF p1_devices[i].id = found[1]
                           THEN [id |-> found[1]] @@ DeviceRow(data)
                           ELSE p1_devices[i]]
  /\ Put(p, IF data.unique_id = None THEN Resolved(r, None, FALSE)
            ELSE IF found = None THEN [r EXCEPT !.pc = "resolve_insert"]
            ELSE Resolved(r, found, FALSE))
  /\ returns' = IF found # None THEN returns \cup {<<data.unique_id[1], found>>} ELSE returns
  /\ UNCHANGED <<parsing, inverter_data, p1_meter_data, collection_logs, started, clean_runs>>

\* get_or_create_p1_device / get_or_create_device, first half: connect,
\* cursor, SELECT, fetchone, and `return result[0]` when a row was found.
DevSelect(p) ==
  LET r == run[p]
      data == r.p1_data[1]
  IN
  /\ r.pc = "resolve_select"
  /\ \E f \in Faults \ {"commit"} :
       LET bodyFails == f \in {"connect", "cursor_lost", "cursor_live", "execute", "unexpected"}
           keyError == data.unique_id = None
           found == IF keyError THEN None ELSE LookupDevice(p1_devices, data.unique_id[1])
           ends == bodyFails \/ keyError \/ found # None
       IN
       /\ Driver(f)
       /\ Raises(f) => ends
       /\ Put(p, IF ~ends THEN [r EXCEPT !.pc = "resolve_insert"]
                 ELSE IF Raises(f) THEN Caught(r, "resolve", f)
                 ELSE IF bodyFails \/ keyError THEN Resolved(r, None, f # "none")
                 ELSE Resolved(r, found, FALSE))
       /\ returns' = IF ends /\ f = "none" /\ ~keyError
                     THEN returns \cup {<<data.unique_id[1], found>>}
                     ELSE returns
  /\ UNCHANGED <<parsing, tables, started, clean_runs>>

\* get_or_create_p1_device / get_or_create_device, second half: INSERT,
\* commit, `return cursor.lastrowid`, and the except / finally clauses.
DevInsert(p) ==
  LET r == run[p]
      data == r.p1_data[1]
      uid == data.unique_id[1]
  IN
  /\ r.pc = "resolve_insert"
  /\ \E f \in {"none", "execute", "unexpected", "commit", "cursor_close", "conn_close"} :
       LET inserted == Committed(f) /\ ~UniqueViolation(p1_devices, uid) IN
       /\ Driver(f)
       /\ p1_devices' = IF inserted THEN InsertRow(p1_devices, DeviceRow(data))
                        ELSE p1_devices
       /\ Put(p, IF Raises(f) THEN Caught(r, "resolve", f)
                 ELSE IF inserted THEN Resolved(r, Some(NextId(p1_devices)), FALSE)
                 ELSE Resolved(r, None, f # "none"))
       /\ returns' = IF f = "none"
                     THEN returns \cup {<<uid, IF inserted THEN Some(NextId(p1_devices))
                                                ELSE None>>}
                     ELSE returns
  /\ UNCHANGED <<parsing, inverter_data, p1_meter_data, collection_logs, started, clean_runs>>

\* p1_success = store_p1_data(p1_data, device_id, ...) and the branch on
\* its result (combined collector); success = store_data(...) (standalone).
StoreP1(p) ==
  LET r == run[p]
      d == r.p1_data[1]
  IN
  /\ r.pc = "store_p1"
  /\ \E f \in Faults :
       /\ Driver(f)
       /\ p1_meter_data' = IF Committed(f)
                           THEN InsertRow(p1_meter_data, MeterRow(d, r.device_id[1]))
                           ELSE p1_meter_data
       /\ Put(p, CASE StoreOutcome(f) = "ok" ->
                        [r EXCEPT !.p1_success = TRUE,
                                  !.messages = IF r.kind = "combined"
                                               THEN Append(@, P1Summary(d))
                                               ELSE <<P1Summary(d)>>,
                                  !.trace = Append(@, Ev("store_p1", "ok", FALSE)),
                                  !.pc = IF r.kind = "combined" THEN "aggregate" ELSE "p1_finish"]
                   [] StoreOutcome(f) = "fail" ->
                        MeterFailed(r, "store_p1", "Failed to store data",
                                    "Failed to store data in database")
                   [] OTHER -> Caught(r, "store_p1", f))
  /\ UNCHANGED <<parsing, inverter_data, p1_devices, collection_logs, history>>

\* One call of log_collection_result from main and what follows it:
\* return from main (exit code 0), sys.exit(1), or the exception the call
\* let escape, caught by main's `except Exception`.
LogAndExit(p, r, status, message, f) ==
  LET call == [status |-> status, message |-> message, origin |-> "main"]
      r1 == [r EXCEPT !.log_calls = Append(@, call)]
  IN
  /\ Driver(f)
  /\ collection_logs' = LogWrite(collection_logs, status, message, f)
  /\ Put(p, IF LogRaises(f) THEN Caught(r1, "log", f)
            ELSE [r1 EXCEPT !.trace = Append(@, Ev("log", IF Committed(f) THEN "ok" ELSE "fail",
                                                   f # "none")),
                            !.exit_code = Some(IF status = "success" THEN 0 ELSE 1),
                            !.pc = "done"])
  /\ clean_runs' = IF /\ f = "none" /\ status = "success"
                      /\ r.kind = "combined" /\ MeterConfigured(r.p1_endpoint)
                   THEN clean_runs + 1 ELSE clean_runs
  /\ UNCHANGED <<parsing, inverter_data, p1_devices, p1_meter_data, started, returns>>

\* Combined collector: overall_success, summary_message, the run log and
\* the exit.
Aggregate(p) ==
  LET r == run[p]
      overall == OverallSuccess(r.solar_success, r.p1_success)
  IN
  /\ r.pc = "aggregate"
  /\ \E f \in Faults :
       LogAndExit(p, [r EXCEPT !.overall_success = Some(overall)],
                  IF overall THEN "success" ELSE "error", Summary(r.messages), f)

\* Standalone P1 collector: the run log and the exit after a failed fetch,
\* a failed device resolution, or the store.
P1Finish(p) ==
  LET r == run[p] IN
  /\ r.pc = "p1_finish"
  /\ \E f \in Faults :
       LogAndExit(p, r, IF r.p1_success THEN "success" ELSE "error", r.messages, f)

\* except Exception as e: log_collection_result('error', ...); sys.exit(1).
\* An exception the call lets escape ends the process with a traceback,
\* exit code 1.
Handler(p) ==
  LET r == run[p]
      message == <<Fragment("", "Unexpected error", r.exc)>>
      call == [status |-> "error", message |-> message, origin |-> "handler"]
  IN
  /\ r.pc = "handler"
  /\ \E f \in Faults :
       /\ Driver(f)
       /\ collection_logs' = LogWrite(collection_logs, "error", message, f)
       /\ Put(p, [r EXCEPT !.log_calls = Append(@, call),
                           !.trace = Append(@, Ev("log", IF LogRaises(f) THEN "raise"
                                                         ELSE IF Committed(f) THEN "ok"
                                                         ELSE "fail", f # "none")),
                           !.open_conns = @ + (IF LeavesOpen(f) THEN 1 ELSE 0),
                           !.exit_code = Some(1),
                           !.pc = "done"])
  /\ UNCHANGED <<parsing, inverter_data, p1_devices, p1_meter_data, history>>

\* ------------------------------------------------------------------------
\* Specifications
\* ------------------------------------------------------------------------
\* Invocations of either collector, one after the other.
Next ==
  \E p \in Procs :
    \/ Start(p)
    \/ FetchSolar(p)
    \/ StoreSolar(p)
    \/ P1Gate(p)
    \/ FetchP1(p)
    \/ DevSelect(p)
    \/ DevInsert(p)
    \/ StoreP1(p)
    \/ Aggregate(p)
    \/ P1Finish(p)
    \/ Handler(p)

Spec == Init /\ [][Next]_vars

\* Overlapping invocations of the standalone P1 collector, each followed up
\* to the return of get_or_create_device: the steps after it neither read
\* nor write p1_devices.
NextRace ==
  \E p \in Procs :
    \/ StartRace(p)
    \/ FetchP1(p)
    \/ DevSelect(p)
    \/ DevInsert(p)

SpecRace == Init /\ [][NextRace]_vars

\* parse_xml_value applied to the text of the document's element.
CallParseXmlValue ==
  /\ "value" \notin parse_done
  /\ parse_done' = parse_done \cup {"value"}
  /\ parsed_value' = parse_xml_value(ElementText(xml_doc.element))
  /\ UNCHANGED <<xml_doc, inverter_record, run, tables, faults, history>>

\* fetch_inverter_data applied to the document.
CallFetchInverterData ==
  /\ "record" \notin parse_done
  /\ parse_done' = parse_done \cup {"record"}
  /\ inverter_record' = fetch_inverter_data(xml_doc)
  /\ UNCHANGED <<xml_doc, parsed_value, run, tables, faults, history>>

\* Any document the inverter endpoint can answer with.
InitParse ==
  /\ run = [p \in Procs |-> InitRun]
  /\ inverter_data = <<>>
  /\ p1_devices = <<>>
  /\ p1_meter_data = <<>>
  /\ collection_logs = <<SetupLogRow>>
  /\ started = 0
  /\ faults = 0
  /\ clean_runs = 0
  /\ returns = {}
  /\ xml_doc \in Docs
  /\ parse_done = {}
  /\ parsed_value = None
  /\ inverter_record = None

NextParse ==
  \/ CallParseXmlValue
  \/ CallFetchInverterData

SpecParse == InitParse /\ [][NextParse]_vars

\* ------------------------------------------------------------------------
\* Properties
\* ------------------------------------------------------------------------
\* The invocation attempted operation op / attempted it with result res.
Did(r, op) == \E i \in DOMAIN r.trace : r.trace[i].op = op
Has(r, op, res) == \E i \in DOMAIN r.trace : r.trace[i].op = op /\ r.trace[i].res = res

\* The rows of p1_devices that carry unique_id uid.
RowsOf(uid) == {i \in DOMAIN p1_devices : p1_devices[i].unique_id = uid}

\* C1: under any interleaving of overlapping invocations that resolve the
\* same unique_id, p1_devices never holds two rows with the same unique_id.
C1_OneDevicePerUniqueId ==
  \A i, j \in DOMAIN p1_devices :
    p1_devices[i].unique_id = p1_devices[j].unique_id => i = j

\* Two overlapping invocations both found no row for the same unique_id;
\* one has inserted its row and the other's INSERT has been rejected.
C1_Witness ==
  \E p, q \in Procs :
    /\ p # q /\ faults = 0
    /\ run[p].pc = "store_p1" /\ run[q].pc = "p1_finish"
    /\ run[q].p1_data # None
    /\ run[q].p1_data[1].unique_id # None
    /\ run[q].p1_data[1].unique_id = run[p].p1_data[1].unique_id
    /\ Has(run[q], "resolve", "fail")
    /\ <<run[q].p1_data[1].unique_id[1], None>> \in returns
    /\ RowsOf(run[q].p1_data[1].unique_id[1]) = {run[p].device_id[1]}

\* C2: two calls of get_or_create_p1_device, one after the other, with the
\* same unique_id and a driver that raises nothing return the same device id,
\* which is not None, and exactly one row carries that unique_id, whatever
\* the other attributes of the second call.
C2_SameDeviceTwice ==
  \A a, b \in returns :
    a[1] = b[1] =>
      /\ a[2] = b[2]
      /\ a[2] # None
      /\ Cardinality(RowsOf(a[1])) = 1
      /\ \A i \in RowsOf(a[1]) : a[2] = Some(p1_devices[i].id)

\* The second invocation resolved a unique_id that the first registered,
\* carrying another meter_model, and got the id of the existing row.
C2_Witness ==
  /\ started = 2 /\ faults = 0
  /\ run[1].pc = "store_p1"
  /\ run[1].at_start[1] # <<>>
  /\ \E i \in DOMAIN p1_devices :
       /\ p1_devices[i].unique_id = run[1].p1_data[1].unique_id[1]
       /\ p1_devices[i].meter_model # run[1].p1_data[1].meter_model[1]
       /\ run[1].device_id = Some(p1_devices[i].id)
       /\ <<p1_devices[i].unique_id, run[1].device_id>> \in returns

\* C3: every invocation that has ended has called log_collection_result
\* exactly once, and no invocation ever calls it twice.
C3_LogExactlyOnce ==
  \A p \in Procs :
    /\ Len(run[p].log_calls) <= 1
    /\ run[p].pc = "done" => Len(run[p].log_calls) = 1

\* C4: the combined collector ends with exit code 0 if and only if the
\* aggregate status it determined is success, and with exit code 1 otherwise.
C4_ExitCodeIffSuccess ==
  \A p \in Procs :
    (run[p].pc = "done" /\ run[p].kind = "combined") =>
      /\ run[p].exit_code \in {Some(0), Some(1)}
      /\ run[p].exit_code = Some(0) <=> run[p].overall_success = Some(TRUE)

\* Every configured source of the invocation succeeded.
AllConfiguredSucceeded(r) ==
  /\ Has(r, "fetch_solar", "ok")
  /\ Has(r, "store_solar", "ok")
  /\ \/ r.p1_endpoint = ""
     \/ /\ Has(r, "fetch_p1", "ok")
        /\ Has(r, "resolve", "ok")
        /\ Has(r, "store_p1", "ok")

\* C5: the status the combined collector passes to the run logger at the
\* aggregation step is 'success' if and only if the inverter fetch and store
\* succeeded and the meter is either not configured or its fetch, device
\* resolution and store succeeded; otherwise it is 'error'.
C5_AggregateStatus ==
  \A p \in Procs :
    run[p].kind = "combined" =>
      \A i \in DOMAIN run[p].log_calls :
        run[p].log_calls[i].origin = "main" =>
          /\ run[p].log_calls[i].status \in {"success", "error"}
          /\ run[p].log_calls[i].status = "success" <=> AllConfiguredSucceeded(run[p])

\* The inverter succeeded, the configured meter could not be fetched, and
\* the status passed to the run logger is 'error'.
C5_Witness ==
  \E p \in Procs :
    /\ run[p].kind = "combined" /\ run[p].pc = "done"
    /\ Has(run[p], "store_solar", "ok") /\ Has(run[p], "fetch_p1", "fail")
    /\ run[p].log_calls = <<[status |-> "error", message |-> Summary(run[p].messages),
                             origin |-> "main"]>>
    /\ Len(run[p].messages) = 2

\* C6: when the meter endpoint is configured, every invocation of the
\* combined collector attempts the meter fetch, whatever happened to the
\* inverter fetch and store, and the inverter row it stored stays stored.
C6_MeterAlwaysAttempted ==
  \A p \in Procs :
    (run[p].pc = "done" /\ run[p].kind = "combined" /\ MeterConfigured(run[p].p1_endpoint)) =>
      /\ Did(run[p], "fetch_p1")
      /\ Has(run[p], "store_solar", "ok") => inverter_data # <<>>

\* C7: with an empty meter endpoint an invocation of the combined collector
\* fetches no meter data, leaves p1_devices and p1_meter_data as it found
\* them and, if the inverter fetch and store succeeded, logs 'success' and
\* ends with exit code 0.
C7_UnconfiguredMeter ==
  \A p \in Procs :
    (run[p].pc # "idle" /\ run[p].kind = "combined" /\ run[p].p1_endpoint = "") =>
      /\ ~Did(run[p], "fetch_p1")
      /\ run[p].at_start = <<p1_devices, p1_meter_data>>
      /\ (run[p].pc = "done" /\ Has(run[p], "fetch_solar", "ok") /\ Has(run[p], "store_solar", "ok")) =>
           /\ \E i \in DOMAIN run[p].log_calls : run[p].log_calls[i].status = "success"
           /\ run[p].exit_code = Some(0)

\* C8: a failure of log_collection_result to write the audit row changes
\* neither the status main determined nor the exit code that goes with it:
\* an invocation that called it with 'success' ends with exit code 0, one
\* that called it with 'error' ends with exit code 1, and no call with
\* another status follows.
C8_LogFailureNeverEscalates ==
  \A p \in Procs :
    (run[p].pc = "done" /\ run[p].log_calls # <<>> /\ run[p].log_calls[1].origin = "main") =>
      /\ run[p].exit_code = Some(IF run[p].log_calls[1].status = "success" THEN 0 ELSE 1)
      /\ \A i \in DOMAIN run[p].log_calls :
           run[p].log_calls[i].status = run[p].log_calls[1].status

\* The operations of main that precede the aggregation.
SourceOps == {"fetch_solar", "store_solar", "fetch_p1", "resolve", "store_p1"}

\* C9: an invocation in which an operation before the aggregation let an
\* exception escape has, when it ends, called log_collection_result with
\* status 'error' from the top-level handler and ends with exit code 1; and
\* no invocation ends without a call of log_collection_result.
C9_NoSilentCrash ==
  \A p \in Procs :
    run[p].pc = "done" =>
      /\ run[p].log_calls # <<>>
      /\ (run[p].exc # None /\ run[p].exc[1] \in SourceOps) =>
           /\ run[p].exit_code = Some(1)
           /\ \E i \in DOMAIN run[p].log_calls :
                /\ run[p].log_calls[i].origin = "handler"
                /\ run[p].log_calls[i].status = "error"

\* store_data committed its row and then let the exception of its finally
\* block escape; the handler logged the run and the process ended.
C9_Witness ==
  \E p \in Procs :
    /\ run[p].pc = "done" /\ run[p].kind = "combined"
    /\ run[p].exc = Some("store_solar")
    /\ Has(run[p], "store_solar", "raise")
    /\ inverter_data # <<>>
    /\ Len(run[p].log_calls) = 1 /\ run[p].log_calls[1].origin = "handler"
    /\ run[p].exit_code = Some(1)

\* A step in which store_data (store_p1_data) returned True.
StoredSolar(p) == run[p].pc = "store_solar" /\ run'[p].pc = "p1_gate" /\ run'[p].solar_success
StoredP1(p) == run[p].pc = "store_p1" /\ run'[p].pc \in {"aggregate", "p1_finish"} /\ run'[p].p1_success

\* The table has one row more and its earlier rows are as they were.
OneRowMore(old, new) ==
  /\ Len(new) = Len(old) + 1
  /\ SubSeq(new, 1, Len(old)) = old

C10_Step ==
  \A p \in Procs :
    /\ StoredSolar(p) => OneRowMore(inverter_data, inverter_data') /\ UNCHANGED <<p1_devices, p1_meter_data, collection_logs>>
    /\ StoredP1(p) => OneRowMore(p1_meter_data, p1_meter_data') /\ UNCHANGED <<inverter_data, p1_devices, collection_logs>>

C10_Counts ==
  (run[1].pc \in {"idle", "done"} /\ clean_runs = started) =>
    /\ Len(inverter_data) = started
    /\ Len(p1_meter_data) = started
    /\ Len(collection_logs) = Len(<<SetupLogRow>>) + started

\* C10: every call of store_data / store_p1_data that returns True adds
\* exactly one row and changes no other; after N invocations of the combined
\* collector that all succeeded in full, inverter_data and p1_meter_data
\* hold N rows each and collection_logs holds N rows written by the
\* collector, identical payloads included.
C10_OneRowPerStore == [][C10_Step]_vars /\ []C10_Counts

\* Two invocations received the same inverter document and the same meter
\* payload, both succeeded in full, and each table holds two of their rows.
C10_Witness ==
  /\ run[1].pc = "done" /\ started = 2 /\ clean_runs = 2
  /\ Len(inverter_data) = 2 /\ inverter_data[1].p_ac = inverter_data[2].p_ac
  /\ Len(p1_meter_data) = 2
  /\ p1_meter_data[1].device_id = p1_meter_data[2].device_id
  /\ p1_meter_data[1].voltage_sag_l1_count = p1_meter_data[2].voltage_sag_l1_count
  /\ Len(p1_devices) = 1
  /\ Len(collection_logs) = 3

\* The input parse_xml_value was applied to.
ParsedInput == ElementText(xml_doc.element)

\* A sentinel input: None, or a text that holds only whitespace, or one
\* hyphen and otherwise only whitespace.
IsSentinel(value) ==
  \/ value = None
  \/ \A i \in DOMAIN value[1] : value[1][i] = " "
  \/ \E i \in DOMAIN value[1] :
       value[1][i] = "-" /\ \A j \in DOMAIN value[1] \ {i} : value[1][j] = " "

\* t[a..b] is a decimal numeral: an optional minus sign, then digits with
\* at most one decimal point among them and at least one digit.
IsNumeralAt(t, a, b) ==
  LET first == IF t[a] = "-" THEN a + 1 ELSE a IN
  /\ \A i \in first..b : t[i] \in {"0", "1", "."}
  /\ \E i \in first..b : t[i] \in {"0", "1"}
  /\ \A i, j \in first..b : (t[i] = "." /\ t[j] = ".") => i = j

\* A well-formed numeric string: a decimal numeral with optional whitespace
\* around it.
IsNumeral(value) ==
  /\ value # None
  /\ \E a, b \in DOMAIN value[1] :
       /\ a <= b
       /\ \A i \in DOMAIN value[1] \ (a..b) : value[1][i] = " "
       /\ value[1][a] # " " /\ value[1][b] # " "
       /\ IsNumeralAt(value[1], a, b)

RECURSIVE PlaceSum(_, _, _)
\* The sum of the place values of the digits t[i..Len(t)], the units digit
\* standing just before position point, in units of 10^-MaxLen.
PlaceSum(t, i, point) ==
  IF i > Len(t) THEN 0
  ELSE PlaceSum(t, i + 1, point) +
       (IF t[i] = "1"
        THEN (IF i < point THEN Pow10(MaxLen + point - i - 1) ELSE Pow10(MaxLen + point - i))
        ELSE 0)

\* The number a well-formed numeric string denotes.
NumeralValue(t) ==
  LET point == IF \E i \in DOMAIN t : t[i] = "."
               THEN CHOOSE i \in DOMAIN t : t[i] = "."
               ELSE 1 + (CHOOSE i \in DOMAIN t : t[i] \in {"0", "1"} /\ \A j \in DOMAIN t : t[j] \in {"0", "1"} => j <= i)
      magnitude == PlaceSum(t, 1, point)
  IN IF \E i \in DOMAIN t : t[i] = "-" THEN 0 - magnitude ELSE magnitude

\* C12: parse_xml_value returns None for every sentinel input, None for
\* every string that is neither a sentinel nor a well-formed numeric string,
\* and the number denoted for every well-formed numeric string.
C12_ParseXmlValue ==
  "value" \in parse_done =>
    /\ IsSentinel(ParsedInput) => parsed_value = None
    /\ IsNumeral(ParsedInput) => parsed_value = Some(Num(NumeralValue(ParsedInput[1])))
    /\ (~IsSentinel(ParsedInput) /\ ~IsNumeral(ParsedInput)) => parsed_value = None

\* The record of a document in which none of the elements is present.
MissingRecord == [state |-> None, temp |-> None, p_ac |-> 0, pac2 |-> None]

\* The sentinel of the inverter: one hyphen, whitespace allowed around it.
IsHyphen(value) ==
  /\ value # None
  /\ \E i \in DOMAIN value[1] :
       value[1][i] = "-" /\ \A j \in DOMAIN value[1] \ {i} : value[1][j] = " "

\* The text of the named element, None when the element is missing.
TextOf(name) == ElementText(Find(xml_doc, name))

\* C13: in the parsed inverter record p_ac is 0 when element p-ac holds the
\* sentinel or is missing; pac2 is None when its element holds the sentinel
\* or is missing and is the integer the element denotes (0 included) when it
\* holds a whole number; and for every field of the record a present
\* element holding the sentinel yields what a missing element yields.
C13_InverterFields ==
  ("record" \in parse_done /\ inverter_record # None) =>
    /\ IsSentinel(TextOf("p-ac")) => inverter_record[1].p_ac = 0
    /\ IsSentinel(TextOf("pac2")) => inverter_record[1].pac2 = None
    /\ (IsNumeral(TextOf("pac2")) /\ NumeralValue(TextOf("pac2")[1]) % Scale = 0) =>
         inverter_record[1].pac2 = Some(NumeralValue(TextOf("pac2")[1]) \div Scale)
    /\ xml_doc.element = None => inverter_record[1] = MissingRecord
    /\ (xml_doc.element # None /\ IsHyphen(ElementText(xml_doc.element))) =>
         inverter_record[1] = MissingRecord

\* C11: every storage operation closes the connection it opened before it
\* returns or raises, so no invocation ever holds an open connection after
\* a storage operation, during a fetch or when it ends.
C11_ConnectionsClosed ==
  \A p \in Procs : run[p].open_conns = 0

\* C14: every stored p1_meter_data row has a non-null event counter; a
\* counter the payload supplies no value for is stored as 0.
C14_CountersNeverNull ==
  \A i \in DOMAIN p1_meter_data :
    /\ p1_meter_data[i].voltage_sag_l1_count # None
    /\ p1_meter_data[i].voltage_sag_l1_count[1] \in Nat

\* The invocation fetched a meter payload that lacks unique_id.
LacksUniqueId(r) == r.p1_data # None /\ r.p1_data[1].unique_id = None

\* C15: a meter payload without unique_id makes the meter source fail: the
\* invocation writes no p1_devices and no p1_meter_data row, device
\* resolution returns its failure to main instead of raising to the
\* top-level handler, and the invocation ends with status 'error' and exit
\* code 1.
C15_MissingIdentityContained ==
  \A p \in Procs :
    LacksUniqueId(run[p]) =>
      /\ run[p].at_start = <<p1_devices, p1_meter_data>>
      /\ run[p].exc # Some("resolve")
      /\ run[p].pc = "done" =>
           /\ Has(run[p], "resolve", "fail")
           /\ ~Did(run[p], "store_p1")
           /\ run[p].exit_code = Some(1)
           /\ run[p].log_calls # <<>>
           /\ \A i \in DOMAIN run[p].log_calls : run[p].log_calls[i].status = "error"
           /\ run[p].kind = "combined" => run[p].overall_success = Some(FALSE)

\* A step in which get_or_create_p1_device looked up a unique_id that
\* p1_devices holds.
FoundExisting(p) ==
  /\ run[p].pc = "resolve_select" /\ run'[p].pc # "resolve_select"
  /\ run[p].p1_data[1].unique_id # None
  /\ RowsOf(run[p].p1_data[1].unique_id[1]) # {}

\* Every row of p1_devices is still there, with the values it had.
DevicesKept ==
  \A i \in DOMAIN p1_devices :
    i \in DOMAIN p1_devices' /\ p1_devices'[i] = p1_devices[i]

C16_Step ==
  /\ DevicesKept
  /\ \A p \in Procs : FoundExisting(p) => UNCHANGED tables

\* C16: a call of get_or_create_p1_device that finds a Device for the
\* unique_id writes nothing, whatever attributes the payload carries, and no
\* step of any collector changes or removes a row of p1_devices.
C16_DeviceNeverRewritten == [][C16_Step]_vars

\* A second invocation stored a reading for a meter the first had
\* registered, its payload carrying another meter_model, smr_version and
\* wifi_ssid; the Device row holds the values of the first registration.
C16_Witness ==
  /\ started = 2
  /\ Has(run[1], "store_p1", "ok")
  /\ p1_devices = run[1].at_start[1]
  /\ Len(p1_devices) = 1
  /\ p1_devices[1].unique_id = run[1].p1_data[1].unique_id[1]
  /\ p1_devices[1].meter_model = "A" /\ run[1].p1_data[1].meter_model = Some("B")
  /\ p1_devices[1].smr_version = 50 /\ run[1].p1_data[1].smr_version = Some(42)
  /\ p1_devices[1].wifi_ssid = "home" /\ run[1].p1_data[1].wifi_ssid = Some("shed")

\* The fragment the inverter contributes: its summary when it was stored,
\* otherwise the reason of its failure.
ExpectedSolar(r) ==
  IF Has(r, "store_solar", "ok")
  THEN [src |-> "Solar", text |-> "Power/Temp/Today",
        vals |-> <<r.solar_data[1].p_ac, r.solar_data[1].temp, r.solar_data[1].e_today>>]
  ELSE [src |-> "Solar",
        text |-> IF Has(r, "fetch_solar", "fail") THEN "Failed to fetch data"
                 ELSE "Failed to store data",
        vals |-> <<>>]

\* The fragment the meter contributes.
ExpectedP1(r) ==
  IF Has(r, "store_p1", "ok")
  THEN [src |-> "P1", text |-> "Power/Tariff/Import",
        vals |-> <<IF r.p1_data[1].active_power_w = None THEN None
                   ELSE r.p1_data[1].active_power_w[1]>>]
  ELSE [src |-> "P1",
        text |-> IF Has(r, "fetch_p1", "fail") THEN "Failed to fetch data"
                 ELSE IF Has(r, "resolve", "fail") THEN "Failed to get/create device"
                 ELSE "Failed to store data",
        vals |-> <<>>]

\* C17: the summary message the combined collector passes to the run logger
\* at the aggregation step is the inverter's fragment alone when the meter
\* endpoint is empty, and otherwise the inverter's fragment, the separator
\* ' | ' and the meter's fragment, in this order.
C17_SummaryMessage ==
  \A p \in Procs :
    run[p].kind = "combined" =>
      \A i \in DOMAIN run[p].log_calls :
        run[p].log_calls[i].origin = "main" =>
          run[p].log_calls[i].message =
            IF run[p].p1_endpoint = "" THEN <<ExpectedSolar(run[p])>>
            ELSE <<ExpectedSolar(run[p]),
                   [src |-> " | ", text |-> "", vals |-> <<>>],
                   ExpectedP1(run[p])>>

\* The inverter could not be fetched, the meter reading was stored, and the
\* run was logged with the two fragments around the separator.
C17_Witness ==
  \E p \in Procs :
    /\ run[p].kind = "combined" /\ run[p].pc = "done"
    /\ Has(run[p], "fetch_solar", "fail") /\ Has(run[p], "store_p1", "ok")
    /\ Len(run[p].log_calls) = 1
    /\ run[p].log_calls[1].status = "error"
    /\ Len(run[p].log_calls[1].message) = 3
    /\ run[p].log_calls[1].message[1].text = "Failed to fetch data"
    /\ run[p].log_calls[1].message[2].src = " | "
    /\ run[p].log_calls[1].message[3].text = "Power/Tariff/Import"

\* Position of an operation in the order of main.
Rank(op) ==
  CASE op = "fetch_solar" -> 1
    [] op = "store_solar" -> 2
    [] op = "fetch_p1" -> 3
    [] op = "resolve" -> 4
    [] op = "store_p1" -> 5
    [] op = "log" -> 6

\* C18: within one invocation the operations are attempted in the order
\* inverter fetch, inverter store, meter fetch, device resolution, meter
\* store, run-log write, each at most once; the inverter store only after a
\* successful inverter fetch and the meter store only after device
\* resolution returned a device id.
C18_OrderedSingleAttempts ==
  \A p \in Procs :
    /\ \A i, j \in DOMAIN run[p].trace :
         i < j => Rank(run[p].trace[i].op) < Rank(run[p].trace[j].op)
    /\ Did(run[p], "store_solar") => Has(run[p], "fetch_solar", "ok")
    /\ Did(run[p], "store_p1") => (Has(run[p], "resolve", "ok") /\ run[p].device_id # None)

\* A step in which the named store returned True to main.
SolarStoredOk(p) == ~Has(run[p], "store_solar", "ok") /\ Has(run'[p], "store_solar", "ok")
P1StoredOk(p) == ~Has(run[p], "store_p1", "ok") /\ Has(run'[p], "store_p1", "ok")

C19_Step ==
  /\ \A p \in Procs :
       /\ SolarStoredOk(p) =>
            /\ Len(inverter_data') = Len(inverter_data) + 1
            /\ inverter_data'[Len(inverter_data')].p_ac = run[p].solar_data[1].p_ac
       /\ P1StoredOk(p) =>
            /\ Len(p1_meter_data') = Len(p1_meter_data) + 1
            /\ p1_meter_data'[Len(p1_meter_data')].device_id = run[p].device_id[1]
  /\ Len(p1_meter_data') >= Len(p1_meter_data)
  /\ Len(p1_meter_data') > Len(p1_meter_data) =>
       \E p \in Procs :
         /\ run[p].pc = "store_p1"
         /\ Has(run[p], "resolve", "ok")
         /\ Len(p1_meter_data') = Len(p1_meter_data) + 1
         /\ p1_meter_data'[Len(p1_meter_data')].device_id = run[p].device_id[1]
         /\ \E i \in DOMAIN p1_devices :
              /\ p1_devices[i].id = run[p].device_id[1]
              /\ p1_devices[i].unique_id = run[p].p1_data[1].unique_id[1]

C19_State ==
  \A p \in Procs :
    (run[p].kind = "combined" /\
     \E i \in DOMAIN run[p].log_calls : run[p].log_calls[i].status = "success") =>
      /\ Has(run[p], "store_solar", "ok")
      /\ MeterConfigured(run[p].p1_endpoint) =>
           /\ Has(run[p], "store_p1", "ok")
           /\ \E i \in DOMAIN p1_devices, j \in DOMAIN p1_meter_data :
                /\ p1_devices[i].unique_id = run[p].p1_data[1].unique_id[1]
                /\ p1_meter_data[j].device_id = p1_devices[i].id
                /\ run[p].device_id = Some(p1_devices[i].id)

\* C19: whenever the combined collector passes 'success' to the run logger,
\* store_data returned True in that invocation, which happens only in a step
\* that commits an inverter_data row, and with a configured meter
\* store_p1_data returned True, which happens only in a step that commits a
\* p1_meter_data row whose device_id is the id of the p1_devices row with
\* the payload's unique_id; and every row p1_meter_data gains carries the
\* device_id that device resolution returned in the invocation inserting it.
C19_SuccessMeansStored == [][C19_Step]_vars /\ []C19_State

\* The first invocation registered the meter, stored both readings and
\* logged 'success'.
C19_Witness ==
  /\ started = 1 /\ run[1].kind = "combined" /\ run[1].pc = "done"
  /\ run[1].log_calls # <<>> /\ run[1].log_calls[1].status = "success"
  /\ Len(inverter_data) = 1
  /\ Len(p1_devices) = 1 /\ Len(p1_meter_data) = 1
  /\ p1_meter_data[1].device_id = p1_devices[1].id
  /\ p1_devices[1].unique_id = run[1].p1_data[1].unique_id[1]

====
